---- MODULE Spec2Model ----
(***************************************************************************)
(* Model of src/main.py: the users / items / item_history tables, the four *)
(* domain operations (create_user, create_user_item, update_item_status    *)
(* with add_status_history, get_items_by_status) and the HTTP outcome each *)
(* of them produces.                                                       *)
(*                                                                         *)
(* Python strings that the code transforms (passwords, bcrypt output) are  *)
(* sequences of code points; an Optional value is the empty tuple (None)   *)
(* or a one-element tuple holding the value.                               *)
(*                                                                         *)
(* update_item_status is three steps, one per database round trip: the     *)
(* lookup (line 176), the commit of the status write (line 183) and the    *)
(* commit of the history row inside add_status_history (line 211) followed *)
(* by the construction of the return value (line 186).  Each request runs  *)
(* on its own session; sessions interleave freely between the steps.       *)
(***************************************************************************)
EXTENDS Integers, Sequences, FiniteSets, TLC

(* ------------------------------ bounds --------------------------------- *)
NumSessions == 2      \* concurrent requests (one scoped session each)
NumItems    == 2      \* Item rows present in the database at start-up
MaxCalls    == 2      \* update_item_status calls that find their item
MaxUsers    == 1      \* create_user calls that commit a row
MaxPwLen    == 1      \* length of a raw password

(* --------------------------- value domains ----------------------------- *)
\* class StatusEnum
StatusEnum == {"NEW", "APPROVED", "EOL"}

None == <<>>
Some(v) == <<v>>
Opt(S) == {None} \cup {Some(v) : v \in S}

Sessions == 1 .. NumSessions
\* ids a request may name: the stored ones and one that matches no row
ItemIdArgs == 1 .. (NumItems + 1)
UserIdArgs == 1 .. (MaxUsers + 1)

Chars == {1, 2}
RECURSIVE StringsUpTo(_)
StringsUpTo(n) ==
    IF n = 0 THEN {<<>>}
    ELSE LET shorter == StringsUpTo(n - 1)
         IN  shorter \cup {Append(w, c) : w \in {x \in shorter : Len(x) = n - 1}, c \in Chars}
Passwords == StringsUpTo(MaxPwLen)
Emails == {"a@example.org"}
\* bcrypt.gensalt(): a fresh random salt per call
Salts == {<<7>>, <<8>>}

VARIABLES
    users,      \* table users: sequence of rows, id = position
    items,      \* table items: id -> row
    history,    \* table item_history: sequence of rows, id = position
    req,        \* per session: the update_item_status call in flight
    resp,       \* HTTP outcome produced by the latest step (NoResp if none)
    calls,      \* observer: per item, update_item_status calls that found it
    faulted     \* observer: some update call met a failed commit or was abandoned

vars == <<users, items, history, req, resp, calls, faulted>>

(* ------------------------------ schema --------------------------------- *)
\* class User
User(email, hashed, is_active) ==
    [email |-> email, hash_password |-> hashed, is_active |-> is_active]

\* class Item
Item(title, description, owner_id, status) ==
    [title |-> title, description |-> description, owner_id |-> owner_id, status |-> status]

\* variant: old_status read from the row after item.status was assigned
ItemHistory_read_after_write(item_id, old_status, new_status) ==
    [item_id |-> item_id, old_status |-> new_status, new_status |-> new_status]

\* class ItemHistory (change_date is not modelled: no claim reads it)
ItemHistory(item_id, old_status, new_status) ==
    [item_id |-> item_id, old_status |-> old_status, new_status |-> new_status]

\* class ItemCreate: the fields declared without a default
ItemCreateRequired == {"owner_id"}

(* ----------------------------- responses ------------------------------- *)
NoResp == [op |-> "none", code |-> 0]

Idle == [pc |-> "idle", item_id |-> 0, status |-> "NEW", old_status |-> "NEW", prior |-> "NEW"]

AllIdle == \A s \in Sessions : req[s].pc = "idle"

RECURSIVE SumCalls(_)
SumCalls(S) ==
    IF S = {} THEN 0
    ELSE LET i == CHOOSE x \in S : TRUE IN calls[i] + SumCalls(S \ {i})
TotalCalls == SumCalls(DOMAIN calls)

(* ------------------------------- Init ---------------------------------- *)
\* Base.metadata.create_all keeps the rows an existing database already
\* holds: the items table starts with NumItems rows in the column's default
\* status NEW, owned by user id 1; users and item_history start empty.
Init ==
    /\ users = <<>>
    /\ items = [i \in 1 .. NumItems |-> Item("X", "d", 1, "NEW")]
    /\ history = <<>>
    /\ req = [s \in Sessions |-> Idle]
    /\ resp = NoResp
    /\ calls = [i \in 1 .. NumItems |-> 0]
    /\ faulted = FALSE

(* ---------------------------- create_user ------------------------------ *)
\* bcrypt.hashpw: "$" version/cost, the salt, then a digest of salt and password
Dollar == 36
RECURSIVE Digest(_, _)
Digest(raw, acc) ==
    IF raw = <<>> THEN <<acc>>
    ELSE Digest(Tail(raw), (acc * 31 + Head(raw)) % 64)

\* variant: the raw password stored as it came
hash_password_plaintext(raw_password, salt) == raw_password

hash_password(raw_password, salt) ==
    <<Dollar>> \o salt \o Digest(raw_password, salt[1])

\* body: the UserCreate request; salt: what gensalt returns; fault: commit raises
create_user(body, salt, fault) ==
    /\ IF body.password = None \/ fault
       THEN \* None.encode raises AttributeError, a failed commit raises: line 137
            /\ users' = users
            /\ resp' = [op |-> "create_user", code |-> 500, request |-> body, fault |-> fault]
       ELSE /\ Len(users) < MaxUsers
            /\ users' = Append(users, User(body.email, hash_password(body.password[1], salt), TRUE))
            /\ resp' = [op |-> "create_user", code |-> 200, request |-> body, fault |-> fault,
                        body |-> [id |-> Len(users) + 1, email |-> body.email,
                                  password |-> None, is_active |-> TRUE]]
    /\ UNCHANGED <<items, history, req, calls, faulted>>

(* -------------------------- create_user_item --------------------------- *)
\* Item(**item.dict(), owner_id=user_id): item.dict() has one key per declared
\* field of ItemCreate; a keyword given twice raises TypeError at the call.
DuplicateKeywords(kwargs, explicit) == (DOMAIN kwargs) \cap explicit

\* ItemCreate(id=..., title=..., status=..., description=...): a required
\* field that is not supplied raises ValidationError.
MissingRequired(supplied) == ItemCreateRequired \ supplied

ReturnedFields == {"id", "title", "status", "description"}

\* Column(Enum(StatusEnum), default=StatusEnum.NEW): a None value is left out
\* of the INSERT and the column default applies.
StatusOrDefault(status) == IF status = None THEN "NEW" ELSE status[1]

create_user_item(body, user_id, fault) ==
    /\ IF DuplicateKeywords(body, {"owner_id"}) # {} \/ fault
       THEN \* TypeError or a failed commit: line 160
            /\ items' = items
            /\ resp' = [op |-> "create_user_item", code |-> 500, request |-> body,
                        user_id |-> user_id, fault |-> fault]
       ELSE LET id  == Cardinality(DOMAIN items) + 1
                row == Item(body.title, body.description, user_id, StatusOrDefault(body.status))
            IN  /\ items' = [i \in (DOMAIN items) \cup {id} |-> IF i = id THEN row ELSE items[i]]
                /\ resp' = [op |-> "create_user_item", request |-> body,
                            user_id |-> user_id, fault |-> fault,
                            code |-> IF MissingRequired(ReturnedFields) # {} THEN 400 ELSE 200]
    /\ UNCHANGED <<users, history, req, calls, faulted>>

(* -------------------------- update_item_status ------------------------- *)
\* outcome of an update_item_status call; wrote = commits it completed
UpdateResp(code, item_id, wrote) ==
    [op |-> "update_item_status", code |-> code, item_id |-> item_id, wrote |-> wrote]

\* variant: the not-found check inside the try block, where line 190 turns it into 500
NotFound_inside_try(item_id) == UpdateResp(500, item_id, 0)

\* lines 177-178: raised before the try block, so it reaches the caller as is
NotFound(item_id) == UpdateResp(404, item_id, 0)

\* variant: an UPDATE without its WHERE clause
WriteStatus_every_row(tbl, item_id, status) ==
    [i \in DOMAIN tbl |-> [tbl[i] EXCEPT !.status = status]]

\* item.status = status; db.add(item); db.commit(): UPDATE of that one row
WriteStatus(tbl, item_id, status) ==
    [tbl EXCEPT ![item_id].status = status]

\* lines 176-182: the lookup, the not-found exit, old_status read from the row
update_item_status_lookup(s, item_id, status) ==
    /\ req[s].pc = "idle"
    /\ IF item_id \notin DOMAIN items
       THEN /\ resp' = NotFound(item_id)
            /\ UNCHANGED <<req, calls>>
       ELSE /\ TotalCalls < MaxCalls
            /\ req' = [req EXCEPT ![s] = [pc |-> "commit", item_id |-> item_id, status |-> status,
                                          old_status |-> items[item_id].status,
                                          prior |-> items[item_id].status]]
            /\ calls' = [calls EXCEPT ![item_id] = @ + 1]
            /\ resp' = NoResp
    /\ UNCHANGED <<users, items, history, faulted>>

\* lines 183-184: the first commit.  prior observes the status the row holds
\* at the moment the write is committed.  When the requested status is the
\* one the row was loaded with, the session may find nothing to flush and
\* leave the row as it is (flush = FALSE); any other assignment is written.
update_item_status_commit(s, fault, flush) ==
    /\ req[s].pc = "commit"
    /\ flush \/ req[s].status = req[s].old_status
    /\ IF fault
       THEN /\ items' = items
            /\ req' = [req EXCEPT ![s] = Idle]
            /\ resp' = UpdateResp(500, req[s].item_id, 0)
            /\ faulted' = TRUE
       ELSE /\ items' = IF flush THEN WriteStatus(items, req[s].item_id, req[s].status) ELSE items
            /\ req' = [req EXCEPT ![s].pc = "history", ![s].prior = items[req[s].item_id].status]
            /\ resp' = NoResp
            /\ faulted' = faulted
    /\ UNCHANGED <<users, history, calls>>

\* variant: both writes in one transaction, so a failed history append undoes
\* the status write
add_status_history_one_transaction(s, fault) ==
    /\ req[s].pc = "history"
    /\ IF fault
       THEN /\ history' = history
            /\ items' = [items EXCEPT ![req[s].item_id].status = req[s].old_status]
            /\ resp' = UpdateResp(500, req[s].item_id, 1)
            /\ faulted' = TRUE
       ELSE /\ history' = Append(history, [item_id |-> req[s].item_id,
                                           old_status |-> req[s].old_status,
                                           new_status |-> req[s].status])
            /\ items' = items
            /\ resp' = UpdateResp(400, req[s].item_id, 2)
            /\ faulted' = faulted
    /\ req' = [req EXCEPT ![s] = Idle]
    /\ UNCHANGED <<users, calls>>

\* line 185 with add_status_history (lines 203-215), then the return value of
\* lines 186-187 and the handlers of lines 188-191.
add_status_history(s, fault) ==
    /\ req[s].pc = "history"
    /\ IF fault
       THEN \* HTTPException(500) of line 215, re-raised as 500 by line 191
            /\ history' = history
            /\ resp' = UpdateResp(500, req[s].item_id, 1)
            /\ faulted' = TRUE
       ELSE /\ history' = Append(history, ItemHistory(req[s].item_id, req[s].old_status, req[s].status))
            /\ resp' = IF MissingRequired(ReturnedFields) # {}
                       THEN UpdateResp(400, req[s].item_id, 2)
                       ELSE [op |-> "update_item_status", code |-> 200,
                             item_id |-> req[s].item_id, wrote |-> 2,
                             body |-> [id |-> req[s].item_id,
                                       title |-> items[req[s].item_id].title,
                                       status |-> items[req[s].item_id].status,
                                       description |-> items[req[s].item_id].description]]
            /\ faulted' = faulted
    /\ req' = [req EXCEPT ![s] = Idle]
    /\ UNCHANGED <<users, items, calls>>

\* the worker dies while the request is in flight: get_db's session is
\* released with whatever was committed so far, and no response is sent
abandon(s) ==
    /\ req[s].pc # "idle"
    /\ req' = [req EXCEPT ![s] = Idle]
    /\ resp' = NoResp
    /\ faulted' = TRUE
    /\ UNCHANGED <<users, items, history, calls>>

(* ------------------------- get_items_by_status -------------------------- *)
\* variant: the query without its filter
ItemsByStatus_unfiltered(tbl, status) == tbl

\* db.query(Item).filter(Item.status == status).all()
ItemsByStatus(tbl, status) ==
    [i \in {j \in DOMAIN tbl : tbl[j].status = status} |-> tbl[i]]

get_items_by_status(status) ==
    /\ resp' = [op |-> "get_items_by_status", code |-> 200, status |-> status,
                body |-> ItemsByStatus(items, status)]
    /\ UNCHANGED <<users, items, history, req, calls, faulted>>

(* --------------------------- specifications ---------------------------- *)
\* every request body the two create operations are tried on
UserCreateBodies ==
    [email : Opt(Emails), password : Opt(Passwords), id : {None}, is_active : BOOLEAN]

ItemCreateBodies ==
    [title : {Some(TRUE)}, status : Opt(StatusEnum), description : {Some("d")},
     id : {None}, owner_id : UserIdArgs]

\* one item-create request, for the runs that interleave it with updates
ItemCreateSample ==
    {[title |-> Some(TRUE), status |-> Some("EOL"), description |-> Some("d"),
      id |-> None, owner_id |-> 1]}

\* the operations on items and item_history, requests interleaving freely
Next ==
    \/ \E body \in ItemCreateSample : create_user_item(body, 1, FALSE)
    \/ \E s \in Sessions, item_id \in ItemIdArgs, status \in StatusEnum :
          update_item_status_lookup(s, item_id, status)
    \/ \E s \in Sessions, fault \in BOOLEAN, flush \in BOOLEAN :
          update_item_status_commit(s, fault, flush)
    \/ \E s \in Sessions, fault \in BOOLEAN : add_status_history(s, fault)
    \/ \E s \in Sessions : abandon(s)
    \/ \E status \in StatusEnum : get_items_by_status(status)

Spec == Init /\ [][Next]_vars

\* one request at a time: a call starts only when no other is in flight
sequential_lookup(s, item_id, status) ==
    /\ AllIdle
    /\ update_item_status_lookup(s, item_id, status)

NextSeq ==
    \/ \E body \in ItemCreateSample : create_user_item(body, 1, FALSE)
    \/ \E s \in Sessions, item_id \in ItemIdArgs, status \in StatusEnum :
          sequential_lookup(s, item_id, status)
    \/ \E s \in Sessions, fault \in BOOLEAN, flush \in BOOLEAN :
          update_item_status_commit(s, fault, flush)
    \/ \E s \in Sessions, fault \in BOOLEAN : add_status_history(s, fault)
    \/ \E s \in Sessions : abandon(s)
    \/ \E status \in StatusEnum : get_items_by_status(status)

SeqSpec == Init /\ [][NextSeq]_vars

\* the two create operations over every request body, commits failing or not
NextCreate ==
    \/ \E body \in UserCreateBodies, salt \in Salts, fault \in BOOLEAN :
          create_user(body, salt, fault)
    \/ \E body \in ItemCreateBodies, user_id \in UserIdArgs, fault \in BOOLEAN :
          create_user_item(body, user_id, fault)
    \/ \E status \in StatusEnum : get_items_by_status(status)

CreateSpec == Init /\ [][NextCreate]_vars

(* ------------------------------- claims -------------------------------- *)
\* the history rows of one item, oldest first
RowsOf(i) == SelectSeq(history, LAMBDA r : r.item_id = i)

\* the step in which session s returns from add_status_history with both
\* commits done
Completes(s) ==
    /\ req[s].pc = "history"
    /\ req'[s].pc = "idle"
    /\ resp'.op = "update_item_status"
    /\ resp'.wrote = 2

\* the step in which session s leaves update_item_status after its status
\* write was committed and without having completed the history append
FailsAfterStatusWrite(s) ==
    /\ req[s].pc = "history"
    /\ req'[s].pc = "idle"
    /\ ~(resp'.op = "update_item_status" /\ resp'.wrote = 2)

\* C1: in a sequential run, an update_item_status call on an existing item of
\* status A with requested status B (B = A included) that meets no failed
\* commit leaves the item with status B and appends exactly one history row
\* (item, A, B); while no call has failed, an item has as many history rows
\* as update_item_status calls were made on it.
C1_OneRowPerUpdate ==
    /\ [][\A s \in Sessions : Completes(s) =>
             /\ items'[req[s].item_id].status = req[s].status
             /\ history' = Append(history, [item_id    |-> req[s].item_id,
                                            old_status |-> req[s].prior,
                                            new_status |-> req[s].status])]_vars
    /\ [](\A s \in Sessions : req[s].pc = "commit" => req[s].prior = items[req[s].item_id].status)
    /\ []((AllIdle /\ ~faulted) => \A i \in DOMAIN items : Len(RowsOf(i)) = calls[i])

\* two failure-free calls on one item, the second asking for the status the item has
C1_Witness ==
    /\ AllIdle /\ ~faulted
    /\ resp.op = "update_item_status" /\ resp.wrote = 2
    /\ \E i \in DOMAIN items :
          /\ calls[i] = 2
          /\ Len(RowsOf(i)) = 2
          /\ RowsOf(i)[2].old_status = RowsOf(i)[2].new_status
          /\ RowsOf(i)[1].old_status # RowsOf(i)[1].new_status

\* C2: update_item_status with an item_id that matches no Item row yields 404,
\* appends no history row and changes no item.
C2_MissingItemIs404 ==
    [][(resp'.op = "update_item_status" /\ resp'.item_id \notin DOMAIN items) =>
          /\ resp'.code = 404
          /\ history' = history
          /\ items' = items
          /\ req' = req]_vars

\* a missing id asked for after the tables have changed
C2_Witness ==
    /\ resp.op = "update_item_status"
    /\ resp.item_id \notin DOMAIN items
    /\ resp.code = 404
    /\ Len(history) > 0

\* C3: every history row has old_status equal to the status the item held
\* immediately before the status write of its request was committed, also
\* when requests on the same item interleave.
C3_OldStatusIsStatusBeforeWrite ==
    [][\A s \in Sessions :
          (req[s].pc = "history" /\ req'[s].pc = "idle" /\ Len(history') = Len(history) + 1) =>
              history'[Len(history')].old_status = req[s].prior]_vars

\* C4: create_user_item, when no commit fails, persists exactly one new Item
\* row with owner_id = user_id and the supplied status (NEW when none is
\* supplied), whether or not a User row with that id exists.
C4_CreateItemPersists ==
    [][(resp'.op = "create_user_item" /\ ~resp'.fault) =>
          \E id \in (DOMAIN items') \ (DOMAIN items) :
              /\ DOMAIN items' = (DOMAIN items) \cup {id}
              /\ \A j \in DOMAIN items : items'[j] = items[j]
              /\ items'[id].owner_id = resp'.user_id
              /\ items'[id].status = IF resp'.request.status = None
                                     THEN "NEW" ELSE resp'.request.status[1]]_vars

\* C5: an update_item_status call that completed both commits returns the
\* item record with the requested status; an error outcome (400, 404, 500)
\* means the call did not complete both writes.
C5_BothWritesMeansSuccess ==
    [][\A s \in Sessions :
          /\ Completes(s) => (resp'.code = 200 /\ resp'.body.status = req[s].status)
          /\ (resp'.op = "update_item_status" /\ resp'.code \in {400, 404, 500}) => resp'.wrote < 2]_vars

\* C6: get_items_by_status(S) returns exactly the items whose committed status
\* is S (none when there is none) and changes no row of any table.
C6_QueryIsExactAndPure ==
    [][resp'.op = "get_items_by_status" =>
          /\ DOMAIN resp'.body = {i \in DOMAIN items : items[i].status = resp'.status}
          /\ \A i \in DOMAIN resp'.body : resp'.body[i] = items[i]
          /\ users' = users
          /\ items' = items
          /\ history' = history]_vars

\* a query that returns one item and leaves another out, after an update
C6_Witness ==
    /\ resp.op = "get_items_by_status"
    /\ resp.status # "NEW"
    /\ DOMAIN resp.body # {}
    /\ DOMAIN resp.body # DOMAIN items

\* C7: when the history append fails, or the request is abandoned, after the
\* status write was committed, the item keeps the new status, no history row
\* is written for the transition, the session does nothing further, and a
\* failure that is reported is reported as 500.
C7_NoCompensation ==
    [][\A s \in Sessions : FailsAfterStatusWrite(s) =>
          /\ items' = items
          /\ items'[req[s].item_id].status = req[s].status
          /\ history' = history
          /\ resp' = NoResp \/ (resp'.op = "update_item_status" /\ resp'.code = 500)]_vars

\* the status changed, the failure was reported, and the trail has no row
C7_Witness ==
    /\ resp.op = "update_item_status" /\ resp.code = 500 /\ resp.wrote = 1
    /\ items[resp.item_id].status # "NEW"
    /\ Len(RowsOf(resp.item_id)) = 0

\* C8: create_user with an email and a password present, when the commit does
\* not fail, appends exactly one User row with is_active = TRUE whatever the
\* request says, the request's email and a hash that differs from the raw
\* password, and returns the new id and the email.
C8_CreateUserRow ==
    [][(/\ resp'.op = "create_user"
        /\ ~resp'.fault
        /\ resp'.request.email # None
        /\ resp'.request.password # None) =>
          /\ Len(users') = Len(users) + 1
          /\ SubSeq(users', 1, Len(users)) = users
          /\ users'[Len(users')].is_active = TRUE
          /\ users'[Len(users')].email = resp'.request.email
          /\ users'[Len(users')].hash_password # resp'.request.password[1]
          /\ resp'.code = 200
          /\ resp'.body.id = Len(users')
          /\ resp'.body.email = resp'.request.email]_vars

\* a request that asks for is_active = false and gets an active user
C8_Witness ==
    /\ resp.op = "create_user" /\ resp.code = 200
    /\ resp.request.email # None
    /\ resp.request.is_active = FALSE
    /\ Len(resp.request.password[1]) > 0
    /\ users[Len(users)].is_active = TRUE

\* C9: item_history only grows and its rows never change; no item is removed;
\* an item changes in its status only, and only by the status write of an
\* update_item_status call, which leaves every other item and every user
\* as they were.
C9_Frame ==
    [][/\ Len(history') >= Len(history)
       /\ SubSeq(history', 1, Len(history)) = history
       /\ DOMAIN items \subseteq DOMAIN items'
       /\ \A i \in DOMAIN items : [items'[i] EXCEPT !.status = items[i].status] = items[i]
       /\ items' # items => \E s \in Sessions : req[s].pc = "commit" /\ req'[s].pc = "history"
       /\ \A s \in Sessions : req'[s] # req[s] =>
             /\ users' = users
             /\ \A j \in (DOMAIN items) \ {req'[s].item_id, req[s].item_id} : items'[j] = items[j]]_vars

\* one item updated and recorded while another still has its first status
C9_Witness ==
    /\ Len(history) > 0
    /\ \E i, j \in DOMAIN items :
          /\ items[i].status # "NEW"
          /\ history[1].item_id = i
          /\ j # i /\ items[j].status = "NEW"

\* C10: between requests, for every item with history, the newest row's
\* new_status is the item's status and each row's old_status is the
\* new_status of the row before it.
C10_AuditChain ==
    AllIdle =>
        \A i \in DOMAIN items :
            LET rows == RowsOf(i)
            IN  Len(rows) > 0 =>
                    /\ rows[Len(rows)].new_status = items[i].status
                    /\ \A k \in 1 .. (Len(rows) - 1) : rows[k].new_status = rows[k + 1].old_status

====
